---- MODULE Spec2Model ----
(***************************************************************************)
(* A model of the rental-property chatbot: the RentalPropertyChatbot       *)
(* orchestrator (src/src/chatbot.js), the LLMService completion wrapper    *)
(* (src/src/llm-service.js), the CostTracker (src/src/cost-tracker.js) and *)
(* the ThinkingAnimation (src/unnamed/part_001).                           *)
(*                                                                         *)
(* JavaScript runs every handler to completion up to its next await, so    *)
(* each action below is one such run: askQuestion from its entry to the    *)
(* await of the remote completion call (AskStart), and from the moment the *)
(* remote call settles to the return of the Result (AskResume).            *)
(*                                                                         *)
(* Money is kept in exact integer units of 10^-7 dollar: the two rates     *)
(* 0.0015/1000 and 0.002/1000 are 15 and 20 units per token.               *)
(***************************************************************************)
EXTENDS Integers, Sequences, FiniteSets, TLC

\* ------------------------------------------------------------------ bounds
MaxCalls == 3        \* askQuestion invocations
MaxTicks == 1        \* clock ticks of TickMs milliseconds
MaxPrompts == 3      \* rl.prompt() calls after which no blank or help line is typed
MaxEntries == 3      \* trackQuery calls made on a tracker used on its own
MaxRefusals == 1     \* startInteractiveSession calls on a chatbot that is not initialized
TickMs == 40000      \* granularity of Date.now() in the model

\* ------------------------------------------------------- program constants
responseTimeout == 30000   \* chatbot.js:41, the default of RESPONSE_TIMEOUT
DefaultMaxProperties == 18 \* chatbot.js:37 and data-loader.js:14, the default of MAX_PROPERTIES
pricingInput == 15         \* cost-tracker.js:19, 0.0015 / 1000 dollar, in 10^-7 dollar
pricingOutput == 20        \* cost-tracker.js:20, 0.002 / 1000 dollar, in 10^-7 dollar
EstimatedPromptChars == 1000  \* cost-tracker.js:54
CharsPerToken == 4         \* cost-tracker.js:54-55
PreviewLen == 50           \* cost-tracker.js:68
DataLoadingIterations == 5 \* benchmark.js:27, the default of benchmarkDataLoading
AIIterations == 3          \* benchmark.js:59, the default of benchmarkAIResponses

\* --------------------------------------------------------- optional values
\* A JavaScript value that may be undefined/null: <<>> when absent, <<v>> when present.
None == <<>>
Some(v) == <<v>>
IsSome(o) == o # <<>>
Get(o) == o[1]

Min(a, b) == IF a <= b THEN a ELSE b

\* Math.ceil(n / d) for integers n >= 0, d > 0
Ceil(n, d) == (n + d - 1) \div d

\* ----------------------------------------------------------------- strings
\* String.prototype.trim: strip leading and trailing whitespace.
RECURSIVE trimStart(_)
trimStart(s) ==
  IF Len(s) = 0 THEN s
  ELSE IF SubSeq(s, 1, 1) = " " THEN trimStart(SubSeq(s, 2, Len(s)))
  ELSE s

RECURSIVE trimEnd(_)
trimEnd(s) ==
  IF Len(s) = 0 THEN s
  ELSE IF SubSeq(s, Len(s), Len(s)) = " " THEN trimEnd(SubSeq(s, 1, Len(s) - 1))
  ELSE s

trim(s) == trimEnd(trimStart(s))

\* String.prototype.toLowerCase, on the letters the session's lines use.
toLowerChar(c) ==
  CASE c = "E" -> "e" [] c = "X" -> "x" [] c = "I" -> "i" [] c = "T" -> "t"
    [] c = "Q" -> "q" [] c = "U" -> "u" [] c = "B" -> "b" [] c = "Y" -> "y"
    [] c = "H" -> "h" [] c = "L" -> "l" [] c = "P" -> "p" [] c = "W" -> "w"
    [] OTHER -> c

RECURSIVE toLowerCase(_)
toLowerCase(s) ==
  IF Len(s) = 0 THEN s
  ELSE toLowerChar(SubSeq(s, 1, 1)) \o toLowerCase(SubSeq(s, 2, Len(s)))

\* String.prototype.substring(0, n)
substring0(s, n) == SubSeq(s, 1, Min(n, Len(s)))

LLMApology ==
  "I apologize, but I'm having trouble processing your question right now. Please try asking about specific properties, locations, price ranges, or facilities you're looking for."

ChatbotApology ==
  "I apologize, but I encountered an error while processing your question. Please try rephrasing your question or ask about specific properties, locations, or facilities."

NoAnswerMessage == "No response received from AI"
NoDataMessage == "No property data loaded. Please load properties first."

\* ------------------------------------------------------------------ inputs
\* Questions a caller passes to askQuestion: non-empty, already trimmed text.
Question29 == "What's the cheapest property?"
Question40 == "Which property has at least two bedrooms"
Questions == {Question29, Question40}

\* Questions around the length at which the cost log truncates its preview.
Question50 == "Which properties in Rio have parking and two baths"
Question51 == "Which properties in Rio have parking and two baths?"
Question67 == "Which properties near the beach have two bedrooms and free parking?"
PreviewQuestions == {Question29, Question50, Question51, Question67}

Answer28 == "Rio Beach House at $18/night"
Answer80 == "The Rio Beach House at $18/night is the cheapest property available in our list."

Usage(p, c) == [prompt_tokens |-> p, completion_tokens |-> c]

\* What the remote completion call settles with: a rejection carrying a
\* message, or a response whose choices[0].message.content and usage may
\* each be absent.
Thrown(msg) == [kind |-> "throw", message |-> msg, content |-> None, usage |-> None]
Response(content, usage) == [kind |-> "ok", message |-> "", content |-> content, usage |-> usage]

Replies ==
  { Thrown("Connection error."),
    Response(None, None),
    Response(Some(""), None),
    Response(Some("   "), Some(Usage(0, 18))),
    Response(Some(Answer80), Some(Usage(0, 0))),
    Response(Some(" " \o Answer28 \o " "), Some(Usage(650, 18))) }

\* The replies explored in the interactive session.
SessionReplies ==
  { Thrown("Connection error."),
    Response(Some(" " \o Answer28 \o " "), Some(Usage(650, 18))) }

\* Lines typed into the interactive session.
SessionLines == { "EXIT", "", "help", "  " \o Question29 \o " " }

\* Catalogs the data loader can return.
PropertyLists == { <<>>, <<"Rio Beach House", "Paris Loft">> }

\* Responses handed to a tracker used on its own: an answer with the token
\* counts the API reported, or with none.
TrackedUsages ==
  { None, Some(Usage(0, 50)), Some(Usage(0, 100)), Some(Usage(200, 0)),
    Some(Usage(650, 18)) }

TrackedResponses ==
  { [ question |-> Question29, answer |-> Answer28, error |-> None, usage |-> u ] :
      u \in TrackedUsages }

\* Values of a facility count in the source JSON: absent, or an integer.
FacilityCounts == { None, Some(0), Some(2), Some(-1) }

FacilityObjects ==
  { None } \cup
  { Some([ bedrooms |-> b, bathrooms |-> t, parkings |-> ps, parking |-> p ]) :
      b \in FacilityCounts, t \in FacilityCounts,
      ps \in FacilityCounts, p \in FacilityCounts }

RawRecord(id, title, price, facilities) ==
  [ id |-> id, title |-> title, price |-> price, facilities |-> facilities ]

\* Contents of data/properties.json: unreadable, without a properties array,
\* empty, one record with every facilities object, and three records.
SourceFiles ==
  { None, Some(None), Some(Some(<<>>)) } \cup
  { Some(Some(<< RawRecord(7, Some("Rio Beach House"), Some(18), f) >>)) :
      f \in FacilityObjects } \cup
  { Some(Some(<< RawRecord(7, Some("Rio Beach House"), Some(18), None),
                 RawRecord(3, None, None,
                           Some([ bedrooms |-> Some(2), bathrooms |-> None,
                                  parkings |-> None, parking |-> Some(2) ])),
                 RawRecord(5, Some("Paris Loft"), Some(120),
                           Some([ bedrooms |-> Some(2), bathrooms |-> Some(2),
                                  parkings |-> Some(0), parking |-> None ])) >>)) }

LoaderLimits == { 1, DefaultMaxProperties }

\* Measurements of the benchmark: heap sizes in bytes, times in milliseconds.
BytesPerMB == 1024 * 1024
InitialHeap == 30 * BytesPerMB
HeapSizes == { 40 * BytesPerMB, 70 * BytesPerMB + 300000, 120 * BytesPerMB }
LoadTimes == { 500, 2500 }
ResponseTimes == { 1000, 4000 }

\* Catalogs a caller can hand to setProperties.
Catalogs == PropertyLists \cup { <<"Paris Loft">> }

VARIABLES
  config,             \* RentalPropertyChatbot.config (the flags the core reads)
  dataLoader,         \* None, or Some(PropertyDataLoader: maxProperties, rawData, properties)
  isInitialized,      \* RentalPropertyChatbot.isInitialized
  questionCount,      \* RentalPropertyChatbot.questionCount
  costTracker,        \* CostTracker: sessions, totalCost, totalTokens (+ warnings printed)
  llmService,         \* None, or Some(LLMService: properties, cachedSystemPrompt)
  thinkingAnimation,  \* ThinkingAnimation: isAnimating, animationInterval, live timers
  calls,              \* askQuestion invocations, in order of invocation
  returns,            \* the invocations that returned a Result, in order of return
  requests,           \* completion requests issued to the remote client
  rl,                 \* readline interface: "none", "open" or "closed"
  prompts,            \* rl.prompt() calls made
  summaries,          \* displaySessionSummary() calls made
  exitCode,           \* None while the process runs, Some(code) after process.exit
  notInitializedErrors, \* 'Chatbot not initialized' errors startInteractiveSession printed
  now,                \* Date.now(), milliseconds since the start
  benchmark,          \* PerformanceBenchmark: results, the step of run(), the report
  initializeOutcome   \* None, or Some(the last initialize(): what its steps met, what it returned)

vars == <<config, dataLoader, isInitialized, questionCount, costTracker, llmService,
          thinkingAnimation, calls, returns, requests, rl, prompts,
          summaries, exitCode, notInitializedErrors, now, benchmark,
          initializeOutcome>>


\* ----------------------------------------------------- PropertyDataLoader
\* A number read from the source JSON is an optional integer; so is the
\* result of parseInt, absent when it is NaN.
parseInt(v) == IF IsSome(v) THEN Some(Get(v)) ELSE None

\* a || 0 on such a number: NaN, undefined and 0 are falsy.
orZero(a) == IF IsSome(a) /\ Get(a) # 0 THEN Get(a) ELSE 0

\* a || b on two such numbers.
orElse(a, b) == IF IsSome(a) /\ Get(a) # 0 THEN a ELSE b

\* title || 'Untitled Property'
orUntitled(title) == IF IsSome(title) /\ Get(title) # "" THEN Get(title) ELSE "Untitled Property"

NewPropertyDataLoader(max) ==
  [ maxProperties |-> max, rawData |-> None, properties |-> <<>> ]

\* normalizeFacilities(facilities) (data-loader.js 121-129).
normalizeFacilities(facilities) ==
  IF ~IsSome(facilities)
    THEN [ bedrooms |-> 0, bathrooms |-> 0, parking |-> 0 ]
    ELSE [ bedrooms |-> orZero(parseInt(Get(facilities).bedrooms)),
           bathrooms |-> orZero(parseInt(Get(facilities).bathrooms)),
           parking |-> orZero(parseInt(orElse(Get(facilities).parkings,
                                              Get(facilities).parking))) ]

\* formatPropertiesForAI(properties) (data-loader.js 134-153), with the
\* fields of a record that are read afterwards.
formatPropertiesForAI(properties) ==
  [ index \in 1..Len(properties) |->
      [ id |-> properties[index].id,
        index |-> index,
        title |-> orUntitled(properties[index].title),
        price |-> orZero(properties[index].price),
        facilities |-> normalizeFacilities(properties[index].facilities) ] ]

\* getProperties keeping only the first maxProperties records: the fault C23
\* must detect.
getPropertiesLimited(loader, file) ==
  IF ~IsSome(file)
    THEN [ loader |-> loader, result |-> None ]
  ELSE IF ~IsSome(Get(file))
    THEN [ loader |-> [loader EXCEPT !.rawData = file], result |-> None ]
  ELSE LET allProperties == Get(Get(file))
           kept == SubSeq(allProperties, 1, Min(loader.maxProperties, Len(allProperties)))
           formatted == formatPropertiesForAI(kept)
       IN  [ loader |-> [loader EXCEPT !.rawData = file, !.properties = formatted],
             result |-> Some(formatted) ]

\* getProperties() (data-loader.js 158-178) with loadPropertiesFromFile
\* (24-49). file is what reading and parsing data/properties.json gives:
\* None when that throws, Some(None) for JSON without a properties array,
\* Some(Some(records)) otherwise. result is None when getProperties throws.
getProperties(loader, file) ==
  IF ~IsSome(file)
    THEN [ loader |-> loader, result |-> None ]
  ELSE IF ~IsSome(Get(file))
    THEN [ loader |-> [loader EXCEPT !.rawData = file], result |-> None ]
  ELSE LET allProperties == Get(Get(file))
           formatted == formatPropertiesForAI(allProperties)
       IN  [ loader |-> [loader EXCEPT !.rawData = file, !.properties = formatted],
             result |-> Some(formatted) ]

\* getStats() of the loader (data-loader.js 183-201): null while nothing is
\* loaded.
loaderGetStats(loader) ==
  IF Len(loader.properties) = 0 THEN None
  ELSE Some([ totalProperties |-> Len(loader.properties) ])

\* ------------------------------------------------------------ CostTracker
NewCostTracker ==
  [ sessions |-> <<>>,
    totalCost |-> 0,
    totalTokens |-> [input |-> 0, output |-> 0, total |-> 0],
    warnings |-> 0 ]

\* calculateQueryCost with the two rates exchanged: the fault C4 must detect.
calculateQueryCostSwappedRates(inputTokens, outputTokens) ==
  LET inputCost == inputTokens * pricingOutput
      outputCost == outputTokens * pricingInput
      totalCost == inputCost + outputCost
  IN  [ inputTokens |-> inputTokens,
        outputTokens |-> outputTokens,
        totalTokens |-> inputTokens + outputTokens,
        inputCost |-> inputCost,
        outputCost |-> outputCost,
        totalCost |-> totalCost ]

calculateQueryCost(inputTokens, outputTokens) ==
  LET inputCost == inputTokens * pricingInput
      outputCost == outputTokens * pricingOutput
      totalCost == inputCost + outputCost
  IN  [ inputTokens |-> inputTokens,
        outputTokens |-> outputTokens,
        totalTokens |-> inputTokens + outputTokens,
        inputCost |-> inputCost,
        outputCost |-> outputCost,
        totalCost |-> totalCost ]

\* The counts trackQuery reads: response.usage || {}, then each count || 0.
reportedPrompt(response) ==
  IF IsSome(response.usage) THEN Get(response.usage).prompt_tokens ELSE 0

reportedCompletion(response) ==
  IF IsSome(response.usage) THEN Get(response.usage).completion_tokens ELSE 0

\* The fallback test with || in place of &&: the fault C5 must detect.
estimateNeededEither(inputTokens, outputTokens) == inputTokens = 0 \/ outputTokens = 0

\* The fallback test of trackQuery (cost-tracker.js 52).
estimateNeeded(inputTokens, outputTokens) == inputTokens = 0 /\ outputTokens = 0

\* The bookkeeping with only the input cost added to totalCost: the fault C2
\* must detect.
accumulateInputCostOnly(t, session, cost, inputTokens, outputTokens) ==
  [ t EXCEPT
      !.sessions = Append(t.sessions, session),
      !.totalCost = t.totalCost + cost.inputCost,
      !.totalTokens =
        [ input |-> t.totalTokens.input + inputTokens,
          output |-> t.totalTokens.output + outputTokens,
          total |-> t.totalTokens.total + cost.totalTokens ] ]

\* The bookkeeping putting the new entry first in the log: the fault C19
\* must detect.
accumulatePrepending(t, session, cost, inputTokens, outputTokens) ==
  [ t EXCEPT
      !.sessions = <<session>> \o t.sessions,
      !.totalCost = t.totalCost + cost.totalCost,
      !.totalTokens =
        [ input |-> t.totalTokens.input + inputTokens,
          output |-> t.totalTokens.output + outputTokens,
          total |-> t.totalTokens.total + cost.totalTokens ] ]

\* The bookkeeping leaving the output tokens out of the totals: the fault
\* C20 must detect.
accumulateWithoutOutput(t, session, cost, inputTokens, outputTokens) ==
  [ t EXCEPT
      !.sessions = Append(t.sessions, session),
      !.totalCost = t.totalCost + cost.totalCost,
      !.totalTokens =
        [ input |-> t.totalTokens.input + inputTokens,
          output |-> t.totalTokens.output,
          total |-> t.totalTokens.total + cost.totalTokens ] ]

\* The bookkeeping of trackQuery (cost-tracker.js 74-78): push the entry and
\* add to the running totals.
accumulate(t, session, cost, inputTokens, outputTokens) ==
  [ t EXCEPT
      !.sessions = Append(t.sessions, session),
      !.totalCost = t.totalCost + cost.totalCost,
      !.totalTokens =
        [ input |-> t.totalTokens.input + inputTokens,
          output |-> t.totalTokens.output + outputTokens,
          total |-> t.totalTokens.total + cost.totalTokens ] ]

\* trackQuery marking a question of exactly PreviewLen characters as
\* truncated (>= for >): the fault C21 must detect.
trackQueryEllipsisAtLimit(t, question, response, responseTime) ==
  LET reportedIn == reportedPrompt(response)
      reportedOut == reportedCompletion(response)
      estimate == estimateNeeded(reportedIn, reportedOut)
      inputTokens == IF estimate
                       THEN Ceil(Len(question) + EstimatedPromptChars, CharsPerToken)
                       ELSE reportedIn
      outputTokens == IF estimate
                        THEN Ceil(Len(response.answer), CharsPerToken)
                        ELSE reportedOut
      cost == calculateQueryCost(inputTokens, outputTokens)
      session == [ question |-> substring0(question, PreviewLen)
                                  \o (IF Len(question) >= PreviewLen THEN "..." ELSE ""),
                   responseTime |-> responseTime,
                   tokens |-> cost ]
      warned == [t EXCEPT !.warnings = t.warnings + (IF estimate THEN 1 ELSE 0)]
  IN  [ tracker |-> accumulate(warned, session, cost, inputTokens, outputTokens),
        cost |-> cost ]

\* trackQuery(question, response, responseTime) on tracker t: the tracker
\* after the call, and the cost record it returns.
trackQuery(t, question, response, responseTime) ==
  LET reportedIn == reportedPrompt(response)
      reportedOut == reportedCompletion(response)
      estimate == estimateNeeded(reportedIn, reportedOut)
      inputTokens == IF estimate
                       THEN Ceil(Len(question) + EstimatedPromptChars, CharsPerToken)
                       ELSE reportedIn
      outputTokens == IF estimate
                        THEN Ceil(Len(response.answer), CharsPerToken)
                        ELSE reportedOut
      cost == calculateQueryCost(inputTokens, outputTokens)
      session == [ question |-> substring0(question, PreviewLen)
                                  \o (IF Len(question) > PreviewLen THEN "..." ELSE ""),
                   responseTime |-> responseTime,
                   tokens |-> cost ]
      warned == [t EXCEPT !.warnings = t.warnings + (IF estimate THEN 1 ELSE 0)]
  IN  [ tracker |-> accumulate(warned, session, cost, inputTokens, outputTokens),
        cost |-> cost ]

\* The quotient n / d of two numbers, kept exact as a fraction.
Ratio(n, d) == [num |-> n, den |-> d]

\* getSessionStats without the test for an empty log (0 / 0): the fault C17
\* must detect.
getSessionStatsUnguarded(t) ==
  [ totalQueries |-> Len(t.sessions),
    totalCost |-> t.totalCost,
    totalTokens |-> t.totalTokens,
    averageCostPerQuery |-> Ratio(t.totalCost, Len(t.sessions)),
    averageTokensPerQuery |-> Ratio(t.totalTokens.total, Len(t.sessions)),
    sessions |-> t.sessions ]

\* getSessionStats() (cost-tracker.js 86-96), without the formatted text.
getSessionStats(t) ==
  [ totalQueries |-> Len(t.sessions),
    totalCost |-> t.totalCost,
    totalTokens |-> t.totalTokens,
    averageCostPerQuery |->
      IF Len(t.sessions) > 0 THEN Ratio(t.totalCost, Len(t.sessions)) ELSE Ratio(0, 1),
    averageTokensPerQuery |->
      IF Len(t.sessions) > 0 THEN Ratio(t.totalTokens.total, Len(t.sessions))
      ELSE Ratio(0, 1),
    sessions |-> t.sessions ]

\* ------------------------------------------------------------- LLMService
NewLLMService(cacheSystemPrompt) ==
  [ options |-> [cacheSystemPrompt |-> cacheSystemPrompt],
    cachedSystemPrompt |-> None,
    properties |-> <<>> ]

setProperties(llm, properties) == [llm EXCEPT !.properties = properties]

\* The prompt text is a function of the property list alone.
generateSystemPrompt(properties) ==
  [ count |-> Len(properties), propertyData |-> properties ]

\* The response answerQuestion returns from its catch block.
fallbackResponse(userQuestion, message) ==
  [ question |-> userQuestion,
    answer |-> LLMApology,
    error |-> Some(message),
    usage |-> None ]

\* answerQuestion generating the prompt anew on every call: the fault C12
\* must detect.
answerQuestionPrepareUncached(llm, userQuestion) ==
  IF Len(llm.properties) = 0
    THEN [ llm |-> llm, requested |-> FALSE, systemPrompt |-> None ]
    ELSE [ llm |-> llm,
           requested |-> TRUE,
           systemPrompt |-> Some(generateSystemPrompt(llm.properties)) ]

\* answerQuestion without its test of the property list: the fault C24 must
\* detect.
answerQuestionPrepareUnchecked(llm, userQuestion) ==
  LET cacheOn == llm.options.cacheSystemPrompt
      systemPrompt ==
        IF cacheOn /\ IsSome(llm.cachedSystemPrompt)
          THEN Get(llm.cachedSystemPrompt)
          ELSE generateSystemPrompt(llm.properties)
      cached ==
        IF cacheOn /\ ~IsSome(llm.cachedSystemPrompt)
          THEN Some(systemPrompt)
          ELSE llm.cachedSystemPrompt
  IN  [ llm |-> [llm EXCEPT !.cachedSystemPrompt = cached],
        requested |-> TRUE,
        systemPrompt |-> Some(systemPrompt) ]

\* answerQuestion up to the await of the remote call: the service after it,
\* whether a request was issued, and the system prompt sent.
answerQuestionPrepare(llm, userQuestion) ==
  IF Len(llm.properties) = 0
    THEN [ llm |-> llm, requested |-> FALSE, systemPrompt |-> None ]
    ELSE LET cacheOn == llm.options.cacheSystemPrompt
             systemPrompt ==
               IF cacheOn /\ IsSome(llm.cachedSystemPrompt)
                 THEN Get(llm.cachedSystemPrompt)
                 ELSE generateSystemPrompt(llm.properties)
             cached ==
               IF cacheOn /\ ~IsSome(llm.cachedSystemPrompt)
                 THEN Some(systemPrompt)
                 ELSE llm.cachedSystemPrompt
         IN  [ llm |-> [llm EXCEPT !.cachedSystemPrompt = cached],
               requested |-> TRUE,
               systemPrompt |-> Some(systemPrompt) ]

\* answerQuestion after the remote call settled with `reply`.
answerQuestionSettle(userQuestion, reply) ==
  IF reply.kind = "throw"
    THEN fallbackResponse(userQuestion, reply.message)
  ELSE IF ~IsSome(reply.content) \/ Get(reply.content) = ""
    THEN fallbackResponse(userQuestion, NoAnswerMessage)
  ELSE [ question |-> userQuestion,
         answer |-> trim(Get(reply.content)),
         error |-> None,
         usage |-> IF IsSome(reply.usage) THEN reply.usage ELSE Some(Usage(0, 0)) ]


\* ------------------------------------------------------ ThinkingAnimation
NewThinkingAnimation ==
  [ isAnimating |-> FALSE, animationInterval |-> FALSE, timers |-> 0 ]

\* start(style) without its test of isAnimating: the fault C25 must detect.
startUnguarded(a) ==
  [ isAnimating |-> TRUE, animationInterval |-> TRUE, timers |-> a.timers + 1 ]

\* start(style): animationInterval says whether a timer handle is stored,
\* timers counts the interval timers that exist.
start(a) ==
  IF a.isAnimating THEN a
  ELSE [ isAnimating |-> TRUE, animationInterval |-> TRUE, timers |-> a.timers + 1 ]

stop(a) ==
  IF ~a.isAnimating THEN a
  ELSE IF a.animationInterval
    THEN [ isAnimating |-> FALSE, animationInterval |-> FALSE, timers |-> a.timers - 1 ]
    ELSE [ a EXCEPT !.isAnimating = FALSE ]

\* --------------------------------------------------- PerformanceBenchmark
\* The queries benchmarkAIResponses asks in each iteration (benchmark.js
\* 69-73).
testQueries ==
  << "What properties do you have under $50/night?",
     "Show me properties in Brazil",
     "I need a property with at least 2 bedrooms" >>

\* Math.round(n / d) for integers n >= 0 and d > 0.
MathRound(n, d) == (2 * n + d) \div (2 * d)

RECURSIVE SumOf(_)
SumOf(numbers) ==
  IF numbers = <<>> THEN 0 ELSE numbers[1] + SumOf(Tail(numbers))

\* The constructor (benchmark.js 15-22), with the step run() is at and the
\* report it printed. dataLoading holds the loadTime of each result,
\* aiResponses the responseTime, memoryUsage the phase and heapUsed.
NewPerformanceBenchmark ==
  [ dataLoading |-> <<>>, aiResponses |-> <<>>, memoryUsage |-> <<>>,
    step |-> "benchmarkMemoryUsage", report |-> None ]

\* calculateDataLoadingStats() (benchmark.js 151-165).
calculateDataLoadingStats(b) ==
  IF Len(b.dataLoading) = 0 THEN None
  ELSE Some([ iterations |-> Len(b.dataLoading),
              averageLoadTime |-> MathRound(SumOf(b.dataLoading), Len(b.dataLoading)) ])

\* calculateAIResponseStats() (benchmark.js 170-186).
calculateAIResponseStats(b) ==
  IF Len(b.aiResponses) = 0 THEN None
  ELSE Some([ totalQueries |-> Len(b.aiResponses),
              averageResponseTime |-> MathRound(SumOf(b.aiResponses), Len(b.aiResponses)) ])

\* calculateMemoryStats() (benchmark.js 191-203).
calculateMemoryStats(b) ==
  IF Len(b.memoryUsage) = 0 THEN None
  ELSE LET initial == SelectSeq(b.memoryUsage, LAMBDA m : m.phase = "initial")
           afterData == SelectSeq(b.memoryUsage, LAMBDA m : m.phase = "after_data_loading")
       IN  Some([ initialMemory |->
                    IF initial = <<>> THEN 0 ELSE MathRound(initial[1].heapUsed, BytesPerMB),
                  afterDataLoading |->
                    IF afterData = <<>> THEN 0
                    ELSE MathRound(afterData[1].heapUsed, BytesPerMB) ])

\* calculateStatistics() (benchmark.js 138-146).
calculateStatistics(b) ==
  [ dataLoading |-> calculateDataLoadingStats(b),
    aiResponses |-> calculateAIResponseStats(b),
    memory |-> calculateMemoryStats(b) ]

\* The points calculateOverallScore adds for each measurement (benchmark.js
\* 293-314).
dataLoadingPoints(stats) ==
  IF Get(stats.dataLoading).averageLoadTime < 1000 THEN 30
  ELSE IF Get(stats.dataLoading).averageLoadTime < 2000 THEN 20
  ELSE 10

aiResponsePoints(stats) ==
  IF Get(stats.aiResponses).averageResponseTime < 1500 THEN 40
  ELSE IF Get(stats.aiResponses).averageResponseTime < 3000 THEN 25
  ELSE 10

memoryPoints(stats) ==
  IF Get(stats.memory).afterDataLoading < 50 THEN 30
  ELSE IF Get(stats.memory).afterDataLoading < 100 THEN 20
  ELSE 10

\* calculateOverallScore(stats) (benchmark.js 288-317):
\* Math.round(score / factors * 100 / 100).
calculateOverallScore(stats) ==
  LET score ==
        (IF IsSome(stats.dataLoading) THEN dataLoadingPoints(stats) ELSE 0)
        + (IF IsSome(stats.aiResponses) THEN aiResponsePoints(stats) ELSE 0)
        + (IF IsSome(stats.memory) THEN memoryPoints(stats) ELSE 0)
      factors ==
        (IF IsSome(stats.dataLoading) THEN 1 ELSE 0)
        + (IF IsSome(stats.aiResponses) THEN 1 ELSE 0)
        + (IF IsSome(stats.memory) THEN 1 ELSE 0)
  IN  IF factors > 0 THEN MathRound(score, factors) ELSE 0

\* generateReport() (benchmark.js 208-283): the statistics, the overall
\* score and the rating printed with it.
generateReport(b) ==
  LET stats == calculateStatistics(b)
      overallScore == calculateOverallScore(stats)
  IN  [ stats |-> stats,
        overallScore |-> overallScore,
        rating |-> IF overallScore >= 80 THEN "Excellent"
                   ELSE IF overallScore >= 60 THEN "Good"
                   ELSE "Needs improvement" ]

\* ------------------------------------------------- RentalPropertyChatbot
\* The configurations explored: the defaults (every flag on, chatbot.js
\* 43-47), each flag switched off alone, and a missing OPENAI_API_KEY.
DefaultConfig ==
  [ hasApiKey |-> TRUE,
    enableCostTracking |-> TRUE,
    enableAnimations |-> TRUE,
    cacheSystemPrompt |-> TRUE,
    maxProperties |-> DefaultMaxProperties ]

Configs ==
  { DefaultConfig,
    [DefaultConfig EXCEPT !.hasApiKey = FALSE],
    [DefaultConfig EXCEPT !.enableCostTracking = FALSE],
    [DefaultConfig EXCEPT !.enableAnimations = FALSE],
    [DefaultConfig EXCEPT !.cacheSystemPrompt = FALSE] }

Init ==
  /\ config \in Configs
  /\ dataLoader = None
  /\ isInitialized = FALSE
  /\ questionCount = 0
  /\ costTracker = NewCostTracker
  /\ llmService = None
  /\ thinkingAnimation = NewThinkingAnimation
  /\ calls = <<>>
  /\ returns = <<>>
  /\ requests = <<>>
  /\ rl = "none"
  /\ prompts = 0
  /\ summaries = 0
  /\ exitCode = None
  /\ notInitializedErrors = 0
  /\ now = 0
  /\ benchmark = NewPerformanceBenchmark
  /\ initializeOutcome = None

Running == exitCode = None

\* The loader after the getProperties() call of initialize() whose outcome
\* is `loaded`: the catalog it returned is the one it keeps. Here a catalog
\* is the list of its records' titles, in the file and formatted alike.
loadedInto(loader, loaded) ==
  IF IsSome(loaded)
    THEN [loader EXCEPT !.rawData = Some(loaded), !.properties = Get(loaded)]
    ELSE loader

\* What one initialize() met and returned: the outcome of
\* validateConnection() once it was called, the outcome of getProperties()
\* once it was called (None inside when it threw), and the value returned.
KeyMissingOutcome == [ connected |-> None, loaded |-> None, returned |-> FALSE ]

InitializeOutcome(connected, loaded, returned) ==
  [ connected |-> Some(connected),
    loaded |-> IF connected THEN Some(loaded) ELSE None,
    returned |-> returned ]

\* getStats() of the service (llm-service.js 210-218).
llmGetStats(llm) ==
  [ propertiesLoaded |-> Len(llm.properties),
    lastUpdate |-> IF Len(llm.properties) > 0 THEN Some("now") ELSE None ]

\* getStatus() (chatbot.js 334-348): a component that does not exist yet
\* reports undefined.
getStatus ==
  [ initialized |-> isInitialized,
    questionsAnswered |-> questionCount,
    dataLoader |-> IF IsSome(dataLoader) THEN loaderGetStats(Get(dataLoader)) ELSE None,
    llmService |-> IF IsSome(llmService) THEN Some(llmGetStats(Get(llmService))) ELSE None ]

\* initialize() without the test of the API key: the fault C11 must detect.
initializeWithoutKeyCheck(connected, loaded) ==
  LET llm == NewLLMService(config.cacheSystemPrompt)
      loader == NewPropertyDataLoader(config.maxProperties)
      succeeded == connected /\ IsSome(loaded) /\ Len(Get(loaded)) > 0 IN
  /\ dataLoader' = Some(IF connected THEN loadedInto(loader, loaded) ELSE loader)
  /\ initializeOutcome' = Some(InitializeOutcome(connected, loaded, succeeded))
  /\ IF succeeded
       THEN /\ llmService' = Some(setProperties(llm, Get(loaded)))
            /\ isInitialized' = TRUE
       ELSE /\ llmService' = Some(llm)
            /\ UNCHANGED isInitialized

\* initialize() going on to load the catalog when the connection check
\* failed: the fault C27 must detect.
initializeWithoutConnectionCheck(connected, loaded) ==
  IF ~config.hasApiKey
    THEN /\ initializeOutcome' = Some(KeyMissingOutcome)
         /\ UNCHANGED <<dataLoader, llmService, isInitialized>>
    ELSE LET llm == NewLLMService(config.cacheSystemPrompt)
             loader == NewPropertyDataLoader(config.maxProperties)
             succeeded == IsSome(loaded) /\ Len(Get(loaded)) > 0 IN
         /\ dataLoader' = Some(loadedInto(loader, loaded))
         /\ initializeOutcome' =
              Some([ connected |-> Some(connected), loaded |-> Some(loaded),
                     returned |-> succeeded ])
         /\ IF succeeded
              THEN /\ llmService' = Some(setProperties(llm, Get(loaded)))
                   /\ isInitialized' = TRUE
              ELSE /\ llmService' = Some(llm)
                   /\ UNCHANGED isInitialized

\* initialize() (chatbot.js 57-131): connected is the outcome of
\* validateConnection(), loaded the outcome of dataLoader.getProperties()
\* (None when it throws). Every failing step throws into the catch block,
\* which returns false.
initialize(connected, loaded) ==
  IF ~config.hasApiKey
    THEN /\ initializeOutcome' = Some(KeyMissingOutcome)
         /\ UNCHANGED <<dataLoader, llmService, isInitialized>>
    ELSE LET llm == NewLLMService(config.cacheSystemPrompt)
             loader == NewPropertyDataLoader(config.maxProperties)
             succeeded == connected /\ IsSome(loaded) /\ Len(Get(loaded)) > 0 IN
         /\ dataLoader' = Some(IF connected THEN loadedInto(loader, loaded) ELSE loader)
         /\ initializeOutcome' = Some(InitializeOutcome(connected, loaded, succeeded))
         /\ IF succeeded
              THEN /\ llmService' = Some(setProperties(llm, Get(loaded)))
                   /\ isInitialized' = TRUE
              ELSE /\ llmService' = Some(llm)
                   /\ UNCHANGED isInitialized

\* A caller of the method, as test.js 23 and benchmark.js 67.
Initialize(connected, loaded) ==
  /\ Running
  /\ rl = "none"
  /\ ~isInitialized
  /\ initialize(connected, loaded)
  /\ UNCHANGED <<config, benchmark, notInitializedErrors, questionCount, costTracker, thinkingAnimation, calls,
                 returns, requests, rl, prompts, summaries, exitCode, now>>

\* One askQuestion invocation, as the model records it.
NewCall(question, via, state, requested) ==
  [ question |-> question,
    startTime |-> now,
    via |-> via,
    requested |-> requested,
    state |-> state,
    reply |-> None,
    response |-> None,
    result |-> None ]

\* askQuestion with the counter incremented before the initialized check:
\* the fault C10 must detect.
AskRejectedCounting(question) ==
  /\ Running
  /\ ~isInitialized
  /\ Len(calls) < MaxCalls
  /\ questionCount' = questionCount + 1
  /\ calls' = Append(calls, NewCall(question, "direct", "rejected", FALSE))
  /\ UNCHANGED <<config, initializeOutcome, benchmark, dataLoader, notInitializedErrors, isInitialized, costTracker, llmService,
                 thinkingAnimation, returns, requests, rl, prompts, summaries,
                 exitCode, now>>

\* askQuestion(question) on a chatbot that is not initialized (chatbot.js
\* 137-139): throws before anything else is done.
AskRejected(question) ==
  /\ Running
  /\ ~isInitialized
  /\ Len(calls) < MaxCalls
  /\ calls' = Append(calls, NewCall(question, "direct", "rejected", FALSE))
  /\ UNCHANGED <<config, initializeOutcome, benchmark, dataLoader, notInitializedErrors, isInitialized, questionCount, costTracker, llmService,
                 thinkingAnimation, returns, requests, rl, prompts, summaries,
                 exitCode, now>>

\* askQuestion(question) from its entry to the await of the completion call
\* (chatbot.js 137-151 and llm-service.js 84-116). via is "direct" for a call
\* of the method and "line" for one made by the readline handler.
askQuestionStart(question, via) ==
  LET prep == answerQuestionPrepare(Get(llmService), question)
      id == Len(calls) + 1
  IN  /\ isInitialized
      /\ Len(calls) < MaxCalls
      /\ questionCount' = questionCount + 1
      /\ thinkingAnimation' =
           IF config.enableAnimations THEN start(thinkingAnimation)
           ELSE thinkingAnimation
      /\ llmService' = Some(prep.llm)
      /\ requests' =
           IF prep.requested
             THEN Append(requests, [ call |-> id,
                                     systemPrompt |-> Get(prep.systemPrompt),
                                     userQuestion |-> question ])
             ELSE requests
      /\ calls' = Append(calls, NewCall(question, via, "awaiting", prep.requested))

\* A caller of the method that awaits each Result before it asks again, as
\* test.js 67 and benchmark.js 80 do.
AskStart(question) ==
  /\ Running
  /\ rl = "none"
  /\ \A k \in DOMAIN calls : calls[k].state # "awaiting"
  /\ askQuestionStart(question, "direct")
  /\ UNCHANGED <<config, initializeOutcome, benchmark, dataLoader, notInitializedErrors, isInitialized, costTracker, returns, rl, prompts,
                 summaries, exitCode, now>>

\* askQuestion tracking the cost whatever enableCostTracking says: the fault
\* C13 must detect.
askQuestionFinishAlwaysTracking(cfg, tracker, question, response, responseTime, count) ==
  LET tracked == trackQuery(tracker, question, response, responseTime) IN
  [ tracker |-> tracked.tracker,
    result |->
      [ question |-> response.question,
        answer |-> response.answer,
        error |-> response.error,
        responseTime |-> responseTime,
        questionNumber |-> count,
        cost |-> Some(tracked.cost) ] ]

\* askQuestion numbering its Results from zero: the fault C14 must detect.
askQuestionFinishNumberedFromZero(cfg, tracker, question, response, responseTime, count) ==
  LET tracked == trackQuery(tracker, question, response, responseTime) IN
  [ tracker |-> IF cfg.enableCostTracking THEN tracked.tracker ELSE tracker,
    result |->
      [ question |-> response.question,
        answer |-> response.answer,
        error |-> response.error,
        responseTime |-> responseTime,
        questionNumber |-> count - 1,
        cost |-> IF cfg.enableCostTracking THEN Some(tracked.cost) ELSE None ] ]

\* The Result askQuestion builds from the service's response (chatbot.js
\* 152-175), with the tracker after it. questionNumber is the counter as it
\* stands when the Result is built.
askQuestionFinish(cfg, tracker, question, response, responseTime, count) ==
  LET tracked == trackQuery(tracker, question, response, responseTime) IN
  [ tracker |-> IF cfg.enableCostTracking THEN tracked.tracker ELSE tracker,
    result |->
      [ question |-> response.question,
        answer |-> response.answer,
        error |-> response.error,
        responseTime |-> responseTime,
        questionNumber |-> count,
        cost |-> IF cfg.enableCostTracking THEN Some(tracked.cost) ELSE None ] ]

\* askQuestion issuing the request once more when the completion call
\* rejected: the fault C15 must detect.
AskResumeRetrying(k, reply) ==
  /\ Running
  /\ k \in DOMAIN calls
  /\ calls[k].state = "awaiting"
  /\ LET c == calls[k]
         response == IF c.requested
                       THEN answerQuestionSettle(c.question, reply)
                       ELSE fallbackResponse(c.question, NoDataMessage)
         fin == askQuestionFinish(config, costTracker, c.question, response,
                                  now - c.startTime, questionCount)
     IN  /\ costTracker' = fin.tracker
         /\ calls' = [calls EXCEPT ![k].state = "returned",
                                   ![k].reply = IF c.requested THEN Some(reply) ELSE None,
                                   ![k].response = Some(response),
                                   ![k].result = Some(fin.result)]
  /\ requests' =
       IF calls[k].requested /\ reply.kind = "throw"
         THEN Append(requests, [ call |-> k,
                                 systemPrompt |-> generateSystemPrompt(Get(llmService).properties),
                                 userQuestion |-> calls[k].question ])
         ELSE requests
  /\ returns' = Append(returns, k)
  /\ thinkingAnimation' =
       IF config.enableAnimations THEN stop(thinkingAnimation)
       ELSE thinkingAnimation
  /\ prompts' = IF calls[k].via = "line" THEN prompts + 1 ELSE prompts
  /\ UNCHANGED <<config, initializeOutcome, benchmark, dataLoader, notInitializedErrors, isInitialized, questionCount,
                 llmService, rl, summaries, exitCode, now>>

\* A failed question ending the process: the fault C16 must detect.
AskResumeFatal(k, reply) ==
  /\ Running
  /\ k \in DOMAIN calls
  /\ calls[k].state = "awaiting"
  /\ LET c == calls[k]
         response == IF c.requested
                       THEN answerQuestionSettle(c.question, reply)
                       ELSE fallbackResponse(c.question, NoDataMessage)
         fin == askQuestionFinish(config, costTracker, c.question, response,
                                  now - c.startTime, questionCount)
     IN  /\ costTracker' = fin.tracker
         /\ calls' = [calls EXCEPT ![k].state = "returned",
                                   ![k].reply = IF c.requested THEN Some(reply) ELSE None,
                                   ![k].response = Some(response),
                                   ![k].result = Some(fin.result)]
         /\ exitCode' = IF IsSome(response.error) THEN Some(1) ELSE exitCode
         /\ prompts' = IF calls[k].via = "line" /\ ~IsSome(response.error)
                         THEN prompts + 1 ELSE prompts
  /\ returns' = Append(returns, k)
  /\ thinkingAnimation' =
       IF config.enableAnimations THEN stop(thinkingAnimation)
       ELSE thinkingAnimation
  /\ UNCHANGED <<config, initializeOutcome, benchmark, dataLoader, notInitializedErrors, isInitialized, questionCount,
                 llmService, requests, rl, summaries, now>>

\* askQuestion from the settling of the completion call to its return
\* (llm-service.js 118-155, then chatbot.js 152-175). When the readline
\* handler made the call, the handler then prints the answer and prompts
\* again (chatbot.js 305-314).
AskResume(k, reply) ==
  /\ Running
  /\ k \in DOMAIN calls
  /\ calls[k].state = "awaiting"
  /\ LET c == calls[k]
         response == IF c.requested
                       THEN answerQuestionSettle(c.question, reply)
                       ELSE fallbackResponse(c.question, NoDataMessage)
         fin == askQuestionFinish(config, costTracker, c.question, response,
                                  now - c.startTime, questionCount)
     IN  /\ costTracker' = fin.tracker
         /\ calls' = [calls EXCEPT ![k].state = "returned",
                                   ![k].reply = IF c.requested THEN Some(reply) ELSE None,
                                   ![k].response = Some(response),
                                   ![k].result = Some(fin.result)]
  /\ returns' = Append(returns, k)
  /\ thinkingAnimation' =
       IF config.enableAnimations THEN stop(thinkingAnimation)
       ELSE thinkingAnimation
  /\ prompts' = IF calls[k].via = "line" THEN prompts + 1 ELSE prompts
  /\ UNCHANGED <<config, initializeOutcome, benchmark, dataLoader, notInitializedErrors, isInitialized, questionCount, llmService, requests,
                 rl, summaries, exitCode, now>>

\* llmService.setProperties(properties) called on the service of an
\* initialized chatbot, between two questions (llm-service.js 34-37).
SetProperties(properties) ==
  /\ Running
  /\ isInitialized
  /\ rl = "none"
  /\ \A k \in DOMAIN calls : calls[k].state # "awaiting"
  /\ properties # Get(llmService).properties
  /\ llmService' = Some(setProperties(Get(llmService), properties))
  /\ UNCHANGED <<config, initializeOutcome, benchmark, dataLoader, isInitialized, questionCount, costTracker,
                 thinkingAnimation, calls, returns, requests, rl, prompts,
                 summaries, exitCode, notInitializedErrors, now>>

\* Date.now() advances. Only the time that passes while a call is awaited is
\* ever read (responseTime = Date.now() - startTime).
Tick ==
  /\ Running
  /\ \E k \in DOMAIN calls : calls[k].state = "awaiting"
  /\ now < MaxTicks * TickMs
  /\ now' = now + TickMs
  /\ UNCHANGED <<config, initializeOutcome, benchmark, dataLoader, notInitializedErrors, isInitialized, questionCount, costTracker, llmService,
                 thinkingAnimation, calls, returns, requests, rl, prompts,
                 summaries, exitCode>>

\* ---------------------------------------------------- interactive session
ExitWords == {"exit", "quit", "bye", "goodbye"}
HelpWords == {"help", "?"}

\* input.trim() and input.trim().toLowerCase() of every line.
trimmedLine == [input \in SessionLines |-> trim(input)]
loweredLine == [input \in SessionLines |-> toLowerCase(trim(input))]

\* The summary displayed whenever cost tracking is enabled, asked or not:
\* the fault C18 must detect.
summaryDueWhenTracking == config.enableCostTracking

\* The summary of the exit command and of the close handler is displayed
\* under the same condition (chatbot.js 275 and 323).
summaryDue == config.enableCostTracking /\ questionCount > 0

\* main() (chatbot.js 352-361): initialize, exit with status 1 when that
\* fails, else startInteractiveSession (245-259), which creates the readline
\* interface and prompts.
Main(connected, loaded) ==
  /\ Running
  /\ rl = "none"
  /\ ~isInitialized
  /\ initialize(connected, loaded)
  /\ IF isInitialized'
       THEN /\ rl' = "open"
            /\ prompts' = prompts + 1
            /\ UNCHANGED exitCode
       ELSE /\ exitCode' = Some(1)
            /\ UNCHANGED <<rl, prompts>>
  /\ UNCHANGED <<config, benchmark, notInitializedErrors, questionCount, costTracker, thinkingAnimation, calls,
                 returns, requests, summaries, now>>

\* startInteractiveSession() called on the chatbot (chatbot.js 245-259): on a
\* chatbot that is not initialized it prints an error and returns, else it
\* creates the readline interface and prompts.
StartInteractiveSession ==
  /\ Running
  /\ rl = "none"
  /\ IF ~isInitialized
       THEN /\ notInitializedErrors < MaxRefusals
            /\ notInitializedErrors' = notInitializedErrors + 1
            /\ UNCHANGED <<rl, prompts>>
       ELSE /\ rl' = "open"
            /\ prompts' = prompts + 1
            /\ UNCHANGED notInitializedErrors
  /\ UNCHANGED <<config, initializeOutcome, benchmark, dataLoader, isInitialized, questionCount, costTracker, llmService,
                 thinkingAnimation, calls, returns, requests, summaries,
                 exitCode, now>>

\* The 'line' handler (chatbot.js 261-315) up to its first await or return.
\* rl.close() emits 'close' at once, so the exit command runs the close
\* handler (317-328) too, which ends the process.
Line(input) ==
  LET question == trimmedLine[input]
      lowered == loweredLine[input] IN
  /\ Running
  /\ rl = "open"
  /\ IF lowered \in ExitWords
       THEN /\ summaries' = summaries + (IF summaryDue THEN 2 ELSE 0)
            /\ rl' = "closed"
            /\ exitCode' = Some(0)
            /\ UNCHANGED <<questionCount, thinkingAnimation, llmService,
                           requests, calls, prompts>>
     ELSE IF question = "" \/ lowered \in HelpWords
       THEN /\ prompts < MaxPrompts
            /\ prompts' = prompts + 1
            /\ UNCHANGED <<questionCount, thinkingAnimation, llmService,
                           requests, calls, rl, summaries, exitCode>>
     ELSE /\ askQuestionStart(question, "line")
          /\ UNCHANGED <<rl, prompts, summaries, exitCode>>
  /\ UNCHANGED <<config, initializeOutcome, benchmark, dataLoader, notInitializedErrors, isInitialized, costTracker, returns, now>>

\* The 'close' event when the input ends (chatbot.js 317-328).
Close ==
  /\ Running
  /\ rl = "open"
  /\ summaries' = summaries + (IF summaryDue THEN 1 ELSE 0)
  /\ rl' = "closed"
  /\ exitCode' = Some(0)
  /\ UNCHANGED <<config, initializeOutcome, benchmark, dataLoader, notInitializedErrors, isInitialized, questionCount, costTracker, llmService,
                 thinkingAnimation, calls, returns, requests, prompts, now>>

InitOutcomes == {None} \cup {Some(l) : l \in PropertyLists}

\* The chatbot used as a library: the methods called one after the other,
\* every completion call settling within the millisecond it was made in.
Next ==
  \/ \E connected \in BOOLEAN, loaded \in InitOutcomes : Initialize(connected, loaded)
  \/ \E q \in Questions : AskRejected(q)
  \/ \E q \in Questions : AskStart(q)
  \/ \E k \in 1..MaxCalls, reply \in Replies : AskResume(k, reply)

Spec == Init /\ [][Next]_vars

\* The same, with time passing while a completion call is awaited.
TimedNext ==
  \/ Next
  \/ Tick

TimedSpec == Init /\ [][TimedNext]_vars

\* trackQuery(question, response, responseTime) called on the tracker alone
\* (cost-tracker.js 46-81).
TrackQuery(question, response, responseTime) ==
  /\ Len(costTracker.sessions) < MaxEntries
  /\ costTracker' = trackQuery(costTracker, question, response, responseTime).tracker
  /\ UNCHANGED <<config, initializeOutcome, benchmark, dataLoader, isInitialized, questionCount, llmService,
                 thinkingAnimation, calls, returns, requests, rl, prompts,
                 summaries, exitCode, notInitializedErrors, now>>

\* The CostTracker used on its own.
TrackerNext ==
  \E response \in TrackedResponses : TrackQuery(Question29, response, 1200)

TrackerSpec == Init /\ [][TrackerNext]_vars

\* new PropertyDataLoader(maxProperties) (data-loader.js 14-19).
NewLoader(max) ==
  /\ dataLoader = None
  /\ dataLoader' = Some(NewPropertyDataLoader(max))
  /\ UNCHANGED <<config, initializeOutcome, benchmark, isInitialized, questionCount, costTracker, llmService,
                 thinkingAnimation, calls, returns, requests, rl, prompts,
                 summaries, exitCode, notInitializedErrors, now>>

\* getProperties() called on the loader while data/properties.json holds
\* `file`.
GetProperties(file) ==
  /\ IsSome(dataLoader)
  /\ dataLoader' = Some(getProperties(Get(dataLoader), file).loader)
  /\ UNCHANGED <<config, initializeOutcome, benchmark, isInitialized, questionCount, costTracker, llmService,
                 thinkingAnimation, calls, returns, requests, rl, prompts,
                 summaries, exitCode, notInitializedErrors, now>>

\* The PropertyDataLoader used on its own.
LoaderNext ==
  \/ \E max \in LoaderLimits : NewLoader(max)
  \/ \E file \in SourceFiles : GetProperties(file)

LoaderSpec == Init /\ [][LoaderNext]_vars

\* run() (benchmark.js 322-331) step by step. benchmarkMemoryUsage()
\* (110-133) records the heap before and after a load of the catalog.
BenchmarkMemoryUsage(initialHeap, afterDataHeap) ==
  /\ benchmark.step = "benchmarkMemoryUsage"
  /\ benchmark' =
       [benchmark EXCEPT
          !.memoryUsage = << [phase |-> "initial", heapUsed |-> initialHeap],
                             [phase |-> "after_data_loading", heapUsed |-> afterDataHeap] >>,
          !.step = "benchmarkDataLoading"]
  /\ UNCHANGED <<config, initializeOutcome, dataLoader, isInitialized, questionCount, costTracker,
                 llmService, thinkingAnimation, calls, returns, requests, rl,
                 prompts, summaries, exitCode, notInitializedErrors, now>>

\* One iteration of benchmarkDataLoading() (benchmark.js 32-50), the load
\* having taken loadTime milliseconds.
BenchmarkDataLoading(loadTime) ==
  /\ benchmark.step = "benchmarkDataLoading"
  /\ LET results == Append(benchmark.dataLoading, loadTime) IN
     benchmark' =
       [benchmark EXCEPT
          !.dataLoading = results,
          !.step = IF Len(results) = DataLoadingIterations
                     THEN "benchmarkAIResponses" ELSE "benchmarkDataLoading"]
  /\ UNCHANGED <<config, initializeOutcome, dataLoader, isInitialized, questionCount, costTracker,
                 llmService, thinkingAnimation, calls, returns, requests, rl,
                 prompts, summaries, exitCode, notInitializedErrors, now>>

\* One query of benchmarkAIResponses() (benchmark.js 76-98), answered after
\* responseTime milliseconds. After the last query run() generates the
\* report.
BenchmarkAIResponse(responseTime) ==
  /\ benchmark.step = "benchmarkAIResponses"
  /\ LET results == Append(benchmark.aiResponses, responseTime)
         last == Len(results) = AIIterations * Len(testQueries)
         measured == [benchmark EXCEPT !.aiResponses = results]
     IN  benchmark' =
           IF last
             THEN [measured EXCEPT !.step = "done",
                                   !.report = Some(generateReport(measured))]
             ELSE measured
  /\ UNCHANGED <<config, initializeOutcome, dataLoader, isInitialized, questionCount, costTracker,
                 llmService, thinkingAnimation, calls, returns, requests, rl,
                 prompts, summaries, exitCode, notInitializedErrors, now>>

\* benchmarkAIResponses() on a chatbot whose initialize() failed: the first
\* askQuestion throws, the catch block (102-104) ends the benchmark without
\* a result, and run() generates the report.
BenchmarkAIFailed ==
  /\ benchmark.step = "benchmarkAIResponses"
  /\ benchmark.aiResponses = <<>>
  /\ benchmark' = [benchmark EXCEPT !.step = "done",
                                    !.report = Some(generateReport(benchmark))]
  /\ UNCHANGED <<config, initializeOutcome, dataLoader, isInitialized, questionCount, costTracker,
                 llmService, thinkingAnimation, calls, returns, requests, rl,
                 prompts, summaries, exitCode, notInitializedErrors, now>>

\* The benchmark script run on the default configuration.
BenchmarkInit == Init /\ config = DefaultConfig

BenchmarkNext ==
  \/ \E afterDataHeap \in HeapSizes : BenchmarkMemoryUsage(InitialHeap, afterDataHeap)
  \/ \E loadTime \in LoadTimes : BenchmarkDataLoading(loadTime)
  \/ \E responseTime \in ResponseTimes : BenchmarkAIResponse(responseTime)
  \/ BenchmarkAIFailed

BenchmarkSpec == BenchmarkInit /\ [][BenchmarkNext]_vars

\* The chatbot used as a library and asked questions of every length around
\* the preview limit.
PreviewNext ==
  \/ \E connected \in BOOLEAN, loaded \in InitOutcomes : Initialize(connected, loaded)
  \/ \E q \in PreviewQuestions : AskStart(q)
  \/ \E k \in 1..MaxCalls, reply \in SessionReplies : AskResume(k, reply)

PreviewSpec == Init /\ [][PreviewNext]_vars

\* The chatbot used as a library whose caller replaces the catalog between
\* questions.
CatalogNext ==
  \/ \E connected \in BOOLEAN, loaded \in InitOutcomes : Initialize(connected, loaded)
  \/ AskStart(Question29)
  \/ \E k \in 1..MaxCalls, reply \in SessionReplies : AskResume(k, reply)
  \/ \E properties \in Catalogs : SetProperties(properties)

CatalogSpec == Init /\ [][CatalogNext]_vars

\* The chatbot run from the command line, by main() or by a caller that
\* initializes it and starts the session itself, and the readline events.
SessionNext ==
  \/ \E connected \in BOOLEAN, loaded \in InitOutcomes : Main(connected, loaded)
  \/ \E connected \in BOOLEAN, loaded \in InitOutcomes : Initialize(connected, loaded)
  \/ StartInteractiveSession
  \/ \E input \in SessionLines : Line(input)
  \/ \E k \in 1..MaxCalls, reply \in SessionReplies : AskResume(k, reply)
  \/ Close

SessionSpec == Init /\ [][SessionNext]_vars

\* =================================================================== claims
Returned == { k \in DOMAIN calls : calls[k].state = "returned" }
Awaiting == { k \in DOMAIN calls : calls[k].state = "awaiting" }
ResultOf(k) == Get(calls[k].result)

\* The completion call of invocation k failed: the remote call rejected, or
\* its response carried no answer text.
CompletionFailed(k) ==
  /\ calls[k].requested
  /\ LET reply == Get(calls[k].reply) IN
       \/ reply.kind = "throw"
       \/ ~IsSome(reply.content)
       \/ Get(reply.content) = ""

\* Invocation k returns its Result in this step.
ReturnsNow(k) ==
  /\ k \in DOMAIN calls
  /\ calls[k].state = "awaiting"
  /\ calls'[k].state = "returned"

\* An invocation passes the initialized check in this step.
EntersNow ==
  /\ Len(calls') = Len(calls) + 1
  /\ calls'[Len(calls')].state = "awaiting"

RECURSIVE SumTotalCost(_)
SumTotalCost(log) ==
  IF log = <<>> THEN 0
  ELSE log[1].tokens.totalCost + SumTotalCost(Tail(log))

\* C1. Failure isolation: a query whose completion call fails leaves the
\* cost log and the Session Totals as they were, still increments
\* questionCount by one (on entry), and returns a Result with cost == null
\* and a non-empty error.
C1_FailureIsolation ==
  [][ /\ EntersNow =>
           /\ questionCount' = questionCount + 1
           /\ costTracker' = costTracker
      /\ \A k \in DOMAIN calls :
           (ReturnsNow(k) /\ CompletionFailed(k)') =>
             /\ Len(costTracker'.sessions) = Len(costTracker.sessions)
             /\ costTracker'.totalCost = costTracker.totalCost
             /\ costTracker'.totalTokens = costTracker.totalTokens
             /\ questionCount' = questionCount
             /\ ResultOf(k)'.cost = None
             /\ IsSome(ResultOf(k)'.error)
             /\ Get(ResultOf(k)'.error) # "" ]_vars

\* C2. In every reachable state totalCost equals the sum of tokens.totalCost
\* over the entries of the sessions log (in units of 10^-7 dollar).
C2_TotalCostIsSum ==
  costTracker.totalCost = SumTotalCost(costTracker.sessions)

C2_Witness ==
  /\ Len(costTracker.sessions) >= 2
  /\ costTracker.sessions[1].tokens.totalCost # costTracker.sessions[2].tokens.totalCost
  /\ costTracker.totalCost > 0

\* C3. With cost tracking enabled, the cost log has exactly as many entries
\* as askQuestion calls ended successfully (returned a Result without error).
C3_LogLengthIsSuccessCount ==
  config.enableCostTracking =>
    Len(costTracker.sessions) =
      Cardinality({ k \in Returned : ~IsSome(ResultOf(k).error) })

\* C4. calculateQueryCost(i, o) returns inputCost = i x 15, outputCost =
\* o x 20 (the rates 0.0015/1000 and 0.002/1000 in units of 10^-7 dollar),
\* totalCost = inputCost + outputCost and totalTokens = i + o, for the counts
\* of TokenSamples and for every entry priced into the log;
\* calculateQueryCost(0, 0).totalCost is 0.
TokenSamples == {0, 1, 18, 650}

PricedRight(c) ==
  /\ c.inputCost = c.inputTokens * 15
  /\ c.outputCost = c.outputTokens * 20
  /\ c.totalCost = c.inputTokens * 15 + c.outputTokens * 20
  /\ c.totalTokens = c.inputTokens + c.outputTokens

C4_QueryCost ==
  /\ \A i \in TokenSamples, o \in TokenSamples :
       LET c == calculateQueryCost(i, o) IN
         /\ c.inputTokens = i
         /\ c.outputTokens = o
         /\ PricedRight(c)
  /\ calculateQueryCost(0, 0).totalCost = 0
  /\ \A n \in DOMAIN costTracker.sessions :
       /\ PricedRight(costTracker.sessions[n].tokens)
       /\ costTracker.sessions[n].tokens.inputTokens >= 0
       /\ costTracker.sessions[n].tokens.outputTokens >= 0
  /\ \A k \in Returned :
       IsSome(ResultOf(k).cost) => PricedRight(Get(ResultOf(k).cost))

\* The end-to-end scenario: 650 and 18 tokens cost 650 x 0.0000015 +
\* 18 x 0.000002 = 0.001011 dollar.
C4_Witness ==
  \E n \in DOMAIN costTracker.sessions :
    /\ costTracker.sessions[n].tokens.inputTokens = 650
    /\ costTracker.sessions[n].tokens.outputTokens = 18
    /\ costTracker.sessions[n].tokens.totalCost = 10110

\* C5. trackQuery prices the estimates ceil((question length + 1000) / 4)
\* and ceil(answer length / 4) exactly when the reported prompt and
\* completion counts of the response it is given are both zero or absent,
\* and prints the estimation warning exactly then; otherwise it prices the
\* reported counts unchanged (650 and 18 give totalTokens 668). With cost
\* tracking on, the n-th log entry is that of the n-th returned call.
ReportedBothZero(response) ==
  \/ ~IsSome(response.usage)
  \/ /\ Get(response.usage).prompt_tokens = 0
     /\ Get(response.usage).completion_tokens = 0

C5_TokenFallback ==
  /\ \A n \in DOMAIN costTracker.sessions :
       LET c == calls[returns[n]]
           response == Get(c.response)
           tokens == costTracker.sessions[n].tokens
       IN  IF ReportedBothZero(response)
             THEN /\ tokens.inputTokens * 4 >= Len(c.question) + 1000
                  /\ (tokens.inputTokens - 1) * 4 < Len(c.question) + 1000
                  /\ tokens.outputTokens * 4 >= Len(response.answer)
                  /\ (tokens.outputTokens - 1) * 4 < Len(response.answer)
             ELSE /\ tokens.inputTokens = Get(response.usage).prompt_tokens
                  /\ tokens.outputTokens = Get(response.usage).completion_tokens
                  /\ (tokens.inputTokens = 650 /\ tokens.outputTokens = 18
                        => tokens.totalTokens = 668)
  /\ costTracker.warnings =
       Cardinality({ n \in DOMAIN costTracker.sessions :
                       ReportedBothZero(Get(calls[returns[n]].response)) })

\* The fallback scenario: a 40-character question and an 80-character answer
\* with reported counts 0 and 0 are priced as 260 and 20 tokens; and a call
\* priced from its reported counts, one of them zero.
C5_Witness ==
  /\ \E n \in DOMAIN costTracker.sessions :
       /\ Len(calls[returns[n]].question) = 40
       /\ Get(calls[returns[n]].response).usage = Some(Usage(0, 0))
       /\ Len(Get(calls[returns[n]].response).answer) = 80
       /\ costTracker.sessions[n].tokens.inputTokens = 260
       /\ costTracker.sessions[n].tokens.outputTokens = 20
  /\ \E n \in DOMAIN costTracker.sessions :
       /\ Get(calls[returns[n]].response).usage = Some(Usage(0, 18))
       /\ costTracker.sessions[n].tokens.totalTokens = 18
  /\ costTracker.warnings = 1

\* C6. A completion call left unanswered for longer than responseTimeout
\* ends as a failure: no Result of a call that lasted longer than the
\* timeout is a success.
C6_TimeoutFails ==
  \A k \in Returned :
    ResultOf(k).responseTime > responseTimeout => IsSome(ResultOf(k).error)

\* C7. In the interactive session at most one question is in flight: a line
\* that arrives while an askQuestion awaits the completion client is not
\* dispatched before that call has returned.
C7_OneInFlight == Cardinality(Awaiting) <= 1

\* C8. On an initialized chatbot askQuestion always returns a Result with
\* the original question, a non-empty answer, responseTime >= 0 and the
\* questionNumber, and on failure the fixed apology and the error message.
C8_WellFormedResult ==
  /\ \A j \in DOMAIN calls, k \in DOMAIN calls :
       (j < k /\ calls[j].state # "rejected") => calls[k].state # "rejected"
  /\ \A k \in Returned :
       LET r == ResultOf(k) IN
         /\ r.question = calls[k].question
         /\ Len(r.answer) > 0
         /\ r.responseTime >= 0
         /\ r.questionNumber \in 1..questionCount
         /\ IsSome(r.error) =>
              /\ r.answer \in {LLMApology, ChatbotApology}
              /\ Len(Get(r.error)) > 0

\* C9. An empty or missing answer of the completion client is a failure: no
\* Result without an error has an empty answer text.
C9_NoEmptySuccess ==
  \A k \in Returned : ~IsSome(ResultOf(k).error) => ResultOf(k).answer # ""

\* C10. askQuestion before a successful initialize() is rejected and changes
\* nothing: questionCount, the cost log and the Session Totals stay as they
\* are and no completion request is issued; while the chatbot is not
\* initialized no question was counted, priced or sent.
C10_RejectedBeforeInit ==
  /\ [](~isInitialized =>
          /\ questionCount = 0
          /\ costTracker = NewCostTracker
          /\ requests = <<>>
          /\ \A k \in DOMAIN calls : calls[k].state = "rejected")
  /\ [][(~isInitialized /\ Len(calls') = Len(calls) + 1) =>
          /\ calls'[Len(calls')].state = "rejected"
          /\ UNCHANGED <<isInitialized, questionCount, costTracker, llmService,
                         thinkingAnimation, returns, requests>>]_vars

C10_Witness ==
  /\ ~isInitialized
  /\ IsSome(llmService)
  /\ \E k \in DOMAIN calls : calls[k].state = "rejected"

\* C11. Without an API key initialize() fails and leaves isInitialized false,
\* and the session loop is never entered: main() exits with status 1, and
\* startInteractiveSession on a chatbot that is not initialized returns
\* without creating the readline interface or prompting. The interface exists
\* only on an initialized chatbot, and status 1 is the exit of a failed
\* initialize().
C11_NoSessionWithoutInit ==
  /\ [](~config.hasApiKey =>
          /\ ~isInitialized
          /\ llmService = None
          /\ rl = "none"
          /\ prompts = 0
          /\ exitCode \in {None, Some(1)})
  /\ [](rl # "none" => isInitialized)
  /\ [](exitCode = Some(1) => ~isInitialized /\ rl = "none" /\ prompts = 0)
  /\ [][notInitializedErrors' # notInitializedErrors =>
          /\ ~isInitialized
          /\ UNCHANGED <<isInitialized, rl, prompts, exitCode, calls, requests>>]_vars

C11_Witness ==
  /\ ~config.hasApiKey
  /\ exitCode = Some(1)
  /\ notInitializedErrors = 1

\* C12. With prompt caching enabled every completion request carries the
\* same system prompt: the prompt generated for the first request is stored
\* in cachedSystemPrompt and sent unchanged with every later request, so two
\* consecutive successful calls pass the same prompt string.
C12_CachedPromptReused ==
  config.cacheSystemPrompt =>
    /\ \A i \in DOMAIN requests, j \in DOMAIN requests :
         requests[i].systemPrompt = requests[j].systemPrompt
    /\ requests # <<>> =>
         Get(llmService).cachedSystemPrompt = Some(requests[1].systemPrompt)
    /\ requests = <<>> /\ IsSome(llmService) =>
         Get(llmService).cachedSystemPrompt = None

\* Two consecutive successful calls with caching enabled, the catalog
\* replaced since the prompt was generated.
C12_Witness ==
  /\ config.cacheSystemPrompt
  /\ \E i \in DOMAIN requests :
       /\ i + 1 \in DOMAIN requests
       /\ requests[i + 1].call = requests[i].call + 1
       /\ {requests[i].call, requests[i + 1].call} \subseteq Returned
       /\ ~IsSome(ResultOf(requests[i].call).error)
       /\ ~IsSome(ResultOf(requests[i + 1].call).error)
  /\ Len(Get(llmService).properties) > 0
  /\ generateSystemPrompt(Get(llmService).properties) # requests[1].systemPrompt

\* The invocations that passed the initialized check.
Accepted == { k \in DOMAIN calls : calls[k].state # "rejected" }

\* C13. With cost tracking disabled no askQuestion call changes the cost log
\* or the Session Totals and every returned Result has cost == null, while
\* questionCount is still incremented on every call: it counts the
\* invocations made on the initialized chatbot.
C13_UntrackedLeavesTracker ==
  ~config.enableCostTracking =>
    /\ costTracker = NewCostTracker
    /\ \A k \in Returned : ResultOf(k).cost = None
    /\ questionCount = Cardinality(Accepted)

\* Tracking disabled, a successful and a failed call returned, a third call
\* awaiting its answer.
C13_Witness ==
  /\ ~config.enableCostTracking
  /\ \E k \in Returned : ~IsSome(ResultOf(k).error)
  /\ \E k \in Returned : IsSome(ResultOf(k).error)
  /\ Awaiting # {}
  /\ questionCount = 3

\* C14. For non-overlapping calls on an initialized chatbot the k-th
\* askQuestion invocation returns questionNumber == k, whether it succeeds
\* or fails; questionCount grows by exactly one per invocation and never
\* decreases.
C14_QuestionNumbers ==
  /\ [](\A k \in Returned :
          ResultOf(k).questionNumber = Cardinality({ j \in Accepted : j <= k }))
  /\ [](questionCount = Cardinality(Accepted))
  /\ [][ /\ questionCount' >= questionCount
         /\ questionCount' = questionCount + (IF EntersNow THEN 1 ELSE 0) ]_vars

\* Calls rejected before initialize(), then a failed first and a successful
\* second question, numbered 1 and 2.
C14_Witness ==
  /\ \E k \in DOMAIN calls : calls[k].state = "rejected"
  /\ \E j \in Returned, k \in Returned :
       /\ ResultOf(j).questionNumber = 1
       /\ IsSome(ResultOf(j).error)
       /\ ResultOf(k).questionNumber = 2
       /\ ~IsSome(ResultOf(k).error)
  /\ questionCount = 2

\* The completion requests issued for invocation k.
RequestsOf(k) == { i \in DOMAIN requests : requests[i].call = k }

\* C15. Each askQuestion invocation issues at most one completion request
\* to the remote client, on its entry and for its own question; a failed
\* request is never issued again, neither when the invocation returns nor
\* later.
C15_OneRequestPerCall ==
  /\ [](\A k \in DOMAIN calls :
          /\ Cardinality(RequestsOf(k)) = (IF calls[k].requested THEN 1 ELSE 0)
          /\ \A i \in RequestsOf(k) : requests[i].userQuestion = calls[k].question)
  /\ [](\A i \in DOMAIN requests : requests[i].call \in Accepted)
  /\ [][ /\ Len(requests') \in {Len(requests), Len(requests) + 1}
         /\ Len(requests') = Len(requests) + 1 => EntersNow
         /\ \A i \in DOMAIN requests : requests'[i] = requests[i] ]_vars

\* A rejected completion call, returned as a failure, followed by the next
\* invocation: two requests, one for each.
C15_Witness ==
  /\ Len(requests) = 2
  /\ 1 \in Returned
  /\ Get(calls[1].reply).kind = "throw"
  /\ requests[1].call = 1
  /\ requests[2].call = 2

\* Invocation k returned a failure Result.
Failed(k) == k \in Returned /\ IsSome(ResultOf(k).error)

\* C16. A failed query is never fatal to the session: the step in which an
\* askQuestion returns, with a failure Result or an answer, leaves the
\* chatbot initialized, the process running and the readline interface
\* open, and the readline handler prompts again; the chatbot is never
\* de-initialized; and every question asked afterwards is dispatched to the
\* completion client with a request of its own.
C16_FailureNotFatal ==
  [][ /\ isInitialized => isInitialized'
      /\ \A k \in DOMAIN calls :
           ReturnsNow(k) =>
             /\ isInitialized'
             /\ exitCode' = None
             /\ rl' = rl
             /\ prompts' = prompts + (IF calls[k].via = "line" THEN 1 ELSE 0)
      /\ (EntersNow /\ \E k \in DOMAIN calls : Failed(k)) =>
           /\ calls'[Len(calls')].requested
           /\ Len(requests') = Len(requests) + 1
           /\ requests'[Len(requests')].call = Len(calls') ]_vars

\* In the interactive session: a failed first question, the prompt issued
\* again, and a second question answered.
C16_Witness ==
  /\ rl = "open"
  /\ exitCode = None
  /\ Failed(1)
  /\ calls[1].via = "line"
  /\ 2 \in Returned
  /\ ~IsSome(ResultOf(2).error)
  /\ Len(requests) = 2
  /\ prompts = 3

\* The fraction r is the quotient a / b.
IsQuotient(r, a, b) == r.den > 0 /\ r.num * b = a * r.den

\* The costs of the log's entries, in order.
EntryCosts == [ n \in DOMAIN costTracker.sessions |-> costTracker.sessions[n].tokens.totalCost ]

\* C17. getSessionStats returns totalQueries == the length of the cost log,
\* totalCost and totalTokens equal to the running Session Totals,
\* averageCostPerQuery == totalCost / totalQueries and averageTokensPerQuery
\* == totalTokens.total / totalQueries, both averages 0 when the log is
\* empty; three tracked queries costing 0.0001, 0.0002 and 0.0003 dollar
\* (1000, 2000 and 3000 units) give totalCost 0.0006 and averageCostPerQuery
\* 0.0002.
C17_SessionStats ==
  LET stats == getSessionStats(costTracker)
      n == Len(costTracker.sessions)
  IN  /\ stats.totalQueries = n
      /\ stats.totalCost = costTracker.totalCost
      /\ stats.totalTokens = costTracker.totalTokens
      /\ stats.sessions = costTracker.sessions
      /\ n > 0 =>
           /\ IsQuotient(stats.averageCostPerQuery, costTracker.totalCost, n)
           /\ IsQuotient(stats.averageTokensPerQuery, costTracker.totalTokens.total, n)
      /\ n = 0 =>
           /\ IsQuotient(stats.averageCostPerQuery, 0, 1)
           /\ IsQuotient(stats.averageTokensPerQuery, 0, 1)
      /\ EntryCosts = <<1000, 2000, 3000>> =>
           /\ stats.totalCost = 6000
           /\ IsQuotient(stats.averageCostPerQuery, 2000, 1)

C17_Witness ==
  /\ EntryCosts = <<1000, 2000, 3000>>
  /\ getSessionStats(costTracker).totalQueries = 3
  /\ getSessionStats(costTracker).totalTokens.total = 350

\* The session is terminated in this step, by an exit keyword or by the end
\* of the input.
TerminatesNow == exitCode = None /\ exitCode' = Some(0)

\* C18. On a termination request the cost summary is produced if and only
\* if cost tracking is enabled and at least one question was processed in
\* the session (questionCount > 0); with zero questions or tracking disabled
\* no summary is produced, and none is produced before termination.
C18_SummaryIffTrackedQuestions ==
  /\ [](exitCode # Some(0) => summaries = 0)
  /\ [](exitCode = Some(0) =>
          (summaries > 0 <=> (config.enableCostTracking /\ questionCount > 0)))
  /\ [][ /\ TerminatesNow =>
              (summaries' > summaries <=>
                 (config.enableCostTracking /\ questionCount > 0))
         /\ ~TerminatesNow => summaries' = summaries ]_vars

\* A session ended after an answered question, with the summary produced.
C18_Witness ==
  /\ exitCode = Some(0)
  /\ config.enableCostTracking
  /\ Returned # {}
  /\ summaries > 0

\* The log `after` is the log `before` with n entries appended at its end.
Extends(after, before, n) ==
  /\ Len(after) = Len(before) + n
  /\ SubSeq(after, 1, Len(before)) = before

\* C19. The cost log is append-only: a step either leaves the log as it is
\* or appends exactly one entry at its end, the one of the call that returns
\* in that step, with every earlier entry unchanged and in place; the log
\* length never decreases; with tracking enabled every returning call
\* appends; getSessionStats leaves the log as it is.
C19_LogAppendOnly ==
  /\ [][ /\ \/ Extends(costTracker'.sessions, costTracker.sessions, 0)
            \/ Extends(costTracker'.sessions, costTracker.sessions, 1)
         /\ Len(costTracker'.sessions) >= Len(costTracker.sessions)
         /\ (\E k \in DOMAIN calls : ReturnsNow(k)) =>
              Extends(costTracker'.sessions, costTracker.sessions,
                      IF config.enableCostTracking THEN 1 ELSE 0)
         /\ (\A k \in DOMAIN calls : ~ReturnsNow(k)) =>
              costTracker' = costTracker ]_vars
  /\ [](getSessionStats(costTracker).sessions = costTracker.sessions)

\* Three entries in the log, all different.
C19_Witness ==
  /\ Len(costTracker.sessions) = 3
  /\ costTracker.sessions[1] # costTracker.sessions[2]
  /\ costTracker.sessions[2] # costTracker.sessions[3]
  /\ costTracker.sessions[1] # costTracker.sessions[3]

RECURSIVE SumInputTokens(_)
SumInputTokens(log) ==
  IF log = <<>> THEN 0
  ELSE log[1].tokens.inputTokens + SumInputTokens(Tail(log))

RECURSIVE SumOutputTokens(_)
SumOutputTokens(log) ==
  IF log = <<>> THEN 0
  ELSE log[1].tokens.outputTokens + SumOutputTokens(Tail(log))

\* C20. In every reachable state the token totals match the log:
\* totalTokens.input and totalTokens.output are the sums of the entries'
\* inputTokens and outputTokens, and totalTokens.total is their sum.
C20_TokenTotalsMatchLog ==
  /\ costTracker.totalTokens.input = SumInputTokens(costTracker.sessions)
  /\ costTracker.totalTokens.output = SumOutputTokens(costTracker.sessions)
  /\ costTracker.totalTokens.total =
       costTracker.totalTokens.input + costTracker.totalTokens.output

\* Two entries, one priced from reported counts and one from estimates.
C20_Witness ==
  /\ Len(costTracker.sessions) >= 2
  /\ costTracker.warnings = 1
  /\ costTracker.totalTokens.input > 650
  /\ costTracker.totalTokens.output > 18

\* C21. The question preview stored in a Cost Entry is the whole question
\* when it has at most 50 characters, and otherwise its first 50 characters
\* followed by '...'; it is never longer than 53 characters. With cost
\* tracking on, the n-th entry is that of the n-th returned call.
C21_QuestionPreview ==
  \A n \in DOMAIN costTracker.sessions :
    LET question == calls[returns[n]].question
        preview == costTracker.sessions[n].question
    IN  /\ Len(preview) <= 53
        /\ Len(question) <= 50 => preview = question
        /\ Len(question) > 50 =>
             /\ Len(preview) = 53
             /\ SubSeq(preview, 1, 50) = SubSeq(question, 1, 50)
             /\ SubSeq(preview, 51, 53) = "..."

\* Entries for a question of 50, of 51 and of 67 characters.
C21_Witness ==
  /\ Len(costTracker.sessions) = 3
  /\ calls[returns[1]].question = Question50
  /\ costTracker.sessions[1].question = Question50
  /\ calls[returns[2]].question = Question51
  /\ costTracker.sessions[2].question = Question50 \o "..."
  /\ calls[returns[3]].question = Question67
  /\ Len(costTracker.sessions[3].question) = 53

\* The loader holds the records formatted from the file it read last.
Loaded ==
  /\ IsSome(dataLoader)
  /\ IsSome(Get(dataLoader).rawData)
  /\ IsSome(Get(Get(dataLoader).rawData))

SourceRecords == Get(Get(Get(dataLoader).rawData))

\* The count is absent from the source facilities object.
Absent(facilities, field) ==
  \/ ~IsSome(facilities)
  \/ ~IsSome(Get(facilities)[field])

\* C22. For every source facilities object (absent, with missing fields,
\* with 'parkings' or with 'parking', with any integer values) the
\* normalized bedrooms, bathrooms and parking are each a non-negative
\* integer, and 0 for every field that is absent.
C22_FacilitiesNonNegative ==
  Loaded =>
    \A i \in DOMAIN SourceRecords :
      LET source == SourceRecords[i].facilities
          normalized == Get(dataLoader).properties[i].facilities
      IN  /\ normalized.bedrooms \in Nat
          /\ normalized.bathrooms \in Nat
          /\ normalized.parking \in Nat
          /\ Absent(source, "bedrooms") => normalized.bedrooms = 0
          /\ Absent(source, "bathrooms") => normalized.bathrooms = 0
          /\ (Absent(source, "parkings") /\ Absent(source, "parking")) =>
               normalized.parking = 0

Unrequested == { k \in DOMAIN calls : calls[k].state # "rejected" /\ ~calls[k].requested }

\* C24. answerQuestion on a service whose property list is empty issues no
\* request to the remote client and returns a failure response instead of
\* throwing (the apology as answer, 'No property data loaded. Please load
\* properties first.' as error); cachedSystemPrompt is left as it was, so an
\* unset one stays unset.
C24_EmptyCatalogFails ==
  /\ [](\A k \in Unrequested :
               /\ \A i \in DOMAIN requests : requests[i].call # k
               /\ k \in Returned =>
                    /\ Get(calls[k].response).answer = LLMApology
                    /\ Get(calls[k].response).error = Some(NoDataMessage)
                    /\ ResultOf(k).error = Some(NoDataMessage))
  /\ [][ /\ Len(calls') > Len(calls) /\ isInitialized
              /\ Len(Get(llmService).properties) = 0 =>
                /\ Len(calls') \in Unrequested'
                /\ requests' = requests
                /\ Get(llmService').cachedSystemPrompt = Get(llmService).cachedSystemPrompt
         /\ Len(calls') > Len(calls) /\ isInitialized
              /\ Len(Get(llmService).properties) > 0 =>
                Len(calls') \notin Unrequested' ]_vars

\* A question asked of a service whose catalog was emptied before any prompt
\* was cached has returned its failure response; no prompt is cached.
C24_Witness ==
  /\ IsSome(llmService)
  /\ Len(Get(llmService).properties) = 0
  /\ Get(llmService).cachedSystemPrompt = None
  /\ config.cacheSystemPrompt
  /\ \E k \in Unrequested \cap Returned :
       /\ Get(calls[k].response).error = Some(NoDataMessage)
       /\ requests = <<>>

\* C25. With animations enabled the thinking animation is started before the
\* completion call and stopped when askQuestion returns, on the success and
\* on the error path: whenever no askQuestion is in flight isAnimating is
\* false and no interval timer remains, and at most one interval timer
\* exists at any time (start while animating creates none, stop while idle
\* does nothing).
C25_AnimationStopped ==
  /\ [](/\ thinkingAnimation.timers <= 1
        /\ thinkingAnimation.timers = (IF thinkingAnimation.isAnimating THEN 1 ELSE 0)
        /\ Awaiting = {} =>
             ~thinkingAnimation.isAnimating /\ thinkingAnimation.timers = 0
        /\ ~config.enableAnimations => ~thinkingAnimation.isAnimating)
  /\ [][ /\ Len(calls') > Len(calls) /\ calls'[Len(calls')].state = "awaiting"
              /\ config.enableAnimations =>
                /\ thinkingAnimation'.isAnimating
                /\ thinkingAnimation'.timers =
                     (IF thinkingAnimation.isAnimating THEN thinkingAnimation.timers
                      ELSE thinkingAnimation.timers + 1)
         /\ Len(returns') > Len(returns) =>
                /\ ~thinkingAnimation'.isAnimating
                /\ thinkingAnimation'.timers = 0 ]_vars

\* Two questions overlapped (the first Result carries the second's number),
\* one failed and one succeeded, and both have returned: start ran while
\* animating and stop while idle.
C25_Witness ==
  /\ config.enableAnimations
  /\ Awaiting = {}
  /\ {1, 2} \subseteq Returned
  /\ ResultOf(1).questionNumber = 2
  /\ IsSome(ResultOf(1).error)
  /\ ~IsSome(ResultOf(2).error)
  /\ ~thinkingAnimation.isAnimating
  /\ thinkingAnimation.timers = 0

Report == Get(benchmark.report)

AllMeasured ==
  /\ IsSome(benchmark.report)
  /\ IsSome(Report.stats.dataLoading)
  /\ IsSome(Report.stats.aiResponses)
  /\ IsSome(Report.stats.memory)

BestBands ==
  /\ Get(Report.stats.dataLoading).averageLoadTime < 1000
  /\ Get(Report.stats.aiResponses).averageResponseTime < 1500
  /\ Get(Report.stats.memory).afterDataLoading < 50

\* C26. The benchmark's overall score is the weighted combination of the
\* data-loading (30%), AI-response (40%) and memory (30%) scores on a 0-100
\* scale: with all three measurements present it is the sum of the three
\* weighted scores, and with all three in their best band it is 100 and the
\* report rates it 'Excellent' (score >= 80).
C26_OverallScore ==
  AllMeasured =>
    /\ Report.overallScore =
         dataLoadingPoints(Report.stats) + aiResponsePoints(Report.stats)
           + memoryPoints(Report.stats)
    /\ BestBands => Report.overallScore = 100 /\ Report.rating = "Excellent"

Outcome == Get(initializeOutcome)

\* The last initialize() met the API key, a connection check that succeeded
\* and a load that returned a non-empty list.
EveryStepSucceeded ==
  /\ config.hasApiKey
  /\ Outcome.connected = Some(TRUE)
  /\ IsSome(Outcome.loaded)
  /\ IsSome(Get(Outcome.loaded))
  /\ Len(Get(Get(Outcome.loaded))) > 0

\* C27. isInitialized is true only if the API key is present, the connection
\* check succeeded and a non-empty property list was loaded and handed to
\* the LLM service, and getStatus then reports non-null dataLoader and
\* llmService statistics; every failing step makes initialize() return
\* false and leaves isInitialized false.
C27_InitializedOnlyWhenReady ==
  /\ [](/\ isInitialized =>
             /\ IsSome(initializeOutcome)
             /\ EveryStepSucceeded
             /\ Outcome.returned
             /\ getStatus.initialized
             /\ IsSome(getStatus.dataLoader)
             /\ IsSome(getStatus.llmService)
             /\ Get(getStatus.dataLoader).totalProperties
                  = Len(Get(Get(Outcome.loaded)))
        /\ IsSome(initializeOutcome) /\ ~EveryStepSucceeded =>
             /\ ~Outcome.returned
             /\ ~isInitialized
             /\ ~getStatus.initialized
        /\ IsSome(initializeOutcome) => Outcome.returned = isInitialized)
  /\ [][ initializeOutcome' # initializeOutcome /\ isInitialized' =>
           /\ Get(llmService').properties = Get(Get(Get(initializeOutcome').loaded))
           /\ Get(getStatus.llmService').propertiesLoaded > 0 ]_vars

\* initialize() has succeeded and getStatus reports both components.
C27_Witness ==
  /\ isInitialized
  /\ IsSome(getStatus.dataLoader)
  /\ IsSome(getStatus.llmService)
  /\ Get(getStatus.llmService).propertiesLoaded = 2
  /\ Outcome.returned

\* C28. Each session termination displays the cost summary at most once: an
\* exit keyword followed by the readline close event it triggers does not
\* display the summary twice.
C28_SummaryOnce == summaries <= 1

\* C29. Every Result's questionNumber is the counter value produced by that
\* invocation's own increment, so no two Results of one session carry the
\* same questionNumber, even when a second askQuestion is started before the
\* first one has returned.
C29_UniqueQuestionNumbers ==
  /\ \A k \in Returned :
       ResultOf(k).questionNumber = Cardinality({ j \in Accepted : j <= k })
  /\ \A j \in Returned, k \in Returned :
       j # k => ResultOf(j).questionNumber # ResultOf(k).questionNumber

\* C30. With prompt caching enabled, the system prompt sent to the
\* completion client always equals the prompt generated from the property
\* list currently set on the service, also when setProperties is called
\* again with a different list after a question has already been answered.
C30_PromptMatchesCatalog ==
  [][ config.cacheSystemPrompt /\ Len(requests') > Len(requests) =>
        requests'[Len(requests')].systemPrompt
          = generateSystemPrompt(Get(llmService').properties) ]_vars

====
